---- MODULE Spec2Model ----
(***************************************************************************)
(* Model of masterclass-go: the gRPC frame server (internal/grpc_server.go),*)
(* the entry point cmd/main.go that runs it alone, and the two-listener     *)
(* host of the tutorial (the sync.WaitGroup main with startGrpcServer and   *)
(* startHTTPServer).                                                        *)
(*                                                                          *)
(* GrpcServer.Start exists twice in the repository: the file                *)
(* internal/grpc_server.go returns Serve's error, the tutorial's listing of *)
(* the same file calls Serve and returns nil.  cmd/main.go is built against *)
(* the file; the two-listener host, which exists only in the tutorial, is   *)
(* modelled against either.  Stages of the tutorial that the tutorial       *)
(* itself replaces (the sequential main, the goroutines without WaitGroup)  *)
(* are not part of the program.                                             *)
(***************************************************************************)
EXTENDS Integers, Sequences, FiniteSets, TLC

\* ------------------------------------------------------------- bounds
\* number of concurrent GetFrame callers
NumCalls == 3
\* connections a listener accepts before the model stops counting
MaxConn == 1

\* ------------------------------------------------------------- data
\* GetFrameRequest.id and Frame.id are int32
MaxInt32 == 2^30 + (2^30 - 1)
MinInt32 == (-MaxInt32) - 1
Ids == {MinInt32, -5, 0, MaxInt32} \cup (1..NumCalls)
Callers == 1..NumCalls

Listeners == {"grpc", "http"}
\* the non-nil error values a Start() can return
Errors == {"bind", "serve"}

VARIABLES
    program,      \* which main runs: "single" (cmd/main.go) or "waitgroup"
    impl,         \* which GrpcServer.Start is linked: "file" or "readme"
    mainPc,       \* position of main
    taskPc,       \* position of each goroutine startGrpcServer / startHTTPServer
    startPc,      \* position inside each listener's Start()
    listenErr,    \* err of net.Listen in each Start(): "pending", "nil", "bind"
    serveErr,     \* what ended each serve loop: "none" or "serve"
    startErr,     \* value each Start() returned: "pending", "nil", "bind", "serve"
    serveCalled,  \* whether each Start() called Serve
    accepted,     \* connections accepted by each serve loop
    wg,           \* the WaitGroup counter
    output,       \* lines printed to stdout, in order
    exited,       \* whether the process has exited
    exitCode,     \* its exit status
    exitedBy,     \* the goroutine whose code ended the process
    callPc,       \* position of each GetFrame call
    callReq,      \* the request of each call
    callResp      \* the (Frame, error) each call's handler built

hostVars == <<program, impl, mainPc, taskPc, startPc, listenErr, serveErr,
              startErr, serveCalled, accepted, wg, output, exited, exitCode,
              exitedBy>>
callVars == <<callPc, callReq, callResp>>
vars == <<program, impl, mainPc, taskPc, startPc, listenErr, serveErr,
          startErr, serveCalled, accepted, wg, output, exited, exitCode,
          exitedBy, callPc, callReq, callResp>>

Range(s) == {s[i] : i \in 1..Len(s)}

\* ------------------------------------------------------------- GetFrame
\* a handler with a hard-coded id
GetFrameHardCoded(req) == [frame |-> [Id |-> 1], err |-> "nil"]

\* a handler that returns the zero Frame
GetFrameZero(req) == [frame |-> [Id |-> 0], err |-> "nil"]

\* func (s *GrpcServer) GetFrame(ctx, req) (*pb.Frame, error)
GetFrame(req) == [frame |-> [Id |-> req.Id], err |-> "nil"]

NoFrame == [frame |-> [Id |-> 0], err |-> "none"]

\* ------------------------------------------------------------- Start
\* a Start() that calls Serve whatever net.Listen returned
AfterListenIgnoreErr(err) == "Serve"

\* if err != nil { return err }; otherwise Serve(lis)
AfterListen(err) == IF err # "nil" THEN "returned" ELSE "Serve"

\* internal/grpc_server.go: return s.server.Serve(lis)
ServeReturnFile(err) == err

\* the README listing of GrpcServer.Start: s.server.Serve(lis); return nil
ServeReturnReadme(err) == "nil"

\* HTTPServer.Start: return http.ListenAndServe(s.address, nil)
ServeReturnHTTP(err) == err

\* a Start() that drops the serve loop's error, whichever listener it is
ServeReturnNil(t, err) == "nil"

\* what listener t's Start() returns when its serve loop ended with err
ServeReturn(t, err) ==
    IF t = "http" THEN ServeReturnHTTP(err)
    ELSE IF impl = "readme" THEN ServeReturnReadme(err)
    ELSE ServeReturnFile(err)

\* ------------------------------------------------------------- printing
StartingLine(t) ==
    IF t = "grpc" THEN <<"Starting server...", "", "">>
    ELSE <<"Starting HTTP server...", "", "">>

\* the text of listener t's error e (the message names the address)
ErrLine(t, e) == <<"error", t, e>>

\* a task that reports its failure without printing it
PrintlnErrSilent(out, t, e) == out

\* fmt.Println(err) in startGrpcServer / startHTTPServer
PrintlnErr(out, t, e) == Append(out, ErrLine(t, e))

\* fmt.Printf("Error starting server: %v\n", err) in cmd/main.go
PrintfErr(out, e) == Append(out, ErrLine("grpc", e))

\* ------------------------------------------------------------- wait group
\* the goroutine version without WaitGroup: the task calls os.Exit(1) itself
ReportFailureExit(t) == [wg |-> wg, exited |-> TRUE, code |-> 1, by |-> t]

\* wg.Done() after the error is printed
ReportFailure(t) ==
    [wg |-> wg - 1, exited |-> exited, code |-> exitCode, by |-> exitedBy]

\* wg.Wait() returns when the counter is zero
WaitReturns == wg = 0

\* the sequential main: the HTTP server is started only after
\* server.Start() has returned nil
GoReadySequential(t) ==
    IF t = "grpc" THEN mainPc = "goGrpc"
    ELSE mainPc = "goHTTP" /\ startErr["grpc"] = "nil"

\* go startGrpcServer(wg); go startHTTPServer(wg)
GoReady(t) == IF t = "grpc" THEN mainPc = "goGrpc" ELSE mainPc = "goHTTP"

\* ------------------------------------------------------------- Init
IdleCalls ==
    /\ callPc = [c \in Callers |-> "idle"]
    /\ callReq = [c \in Callers |-> [Id |-> 0]]
    /\ callResp = [c \in Callers |-> NoFrame]

Init ==
    /\ program \in {"single", "waitgroup"}
    /\ impl \in {"file", "readme"}
    /\ program = "single" => impl = "file"
    /\ mainPc = IF program = "single" THEN "Println" ELSE "Add"
    /\ taskPc = [t \in Listeners |-> "none"]
    /\ startPc = [t \in Listeners |-> "idle"]
    /\ listenErr = [t \in Listeners |-> "pending"]
    /\ serveErr = [t \in Listeners |-> "none"]
    /\ startErr = [t \in Listeners |-> "pending"]
    /\ serveCalled = [t \in Listeners |-> FALSE]
    /\ accepted = [t \in Listeners |-> 0]
    /\ wg = 0
    /\ output = <<>>
    /\ exited = FALSE
    /\ exitCode = 0
    /\ exitedBy = "none"
    /\ IdleCalls

\* ------------------------------------------------------------- Start()
\* Start() is entered: pb.RegisterFrameServiceServer, then net.Listen is next
InvokeStart(t) == startPc' = [startPc EXCEPT ![t] = "Listen"]

\* lis, err := net.Listen("tcp", s.address): the address binds or it does not
StartListen(t) ==
    /\ ~exited
    /\ startPc[t] = "Listen"
    /\ \E e \in {"nil", "bind"} : listenErr' = [listenErr EXCEPT ![t] = e]
    /\ startPc' = [startPc EXCEPT ![t] = "check"]
    /\ UNCHANGED <<program, impl, mainPc, taskPc, serveErr, startErr,
                   serveCalled, accepted, wg, output, exited, exitCode,
                   exitedBy, callVars>>

\* if err != nil { return err }  /  s.server.Serve(lis)
StartCheck(t) ==
    /\ ~exited
    /\ startPc[t] = "check"
    /\ startPc' = [startPc EXCEPT ![t] = AfterListen(listenErr[t])]
    /\ IF AfterListen(listenErr[t]) = "returned"
       THEN /\ startErr' = [startErr EXCEPT ![t] = listenErr[t]]
            /\ UNCHANGED serveCalled
       ELSE /\ serveCalled' = [serveCalled EXCEPT ![t] = TRUE]
            /\ UNCHANGED startErr
    /\ UNCHANGED <<program, impl, mainPc, taskPc, listenErr, serveErr,
                   accepted, wg, output, exited, exitCode, exitedBy, callVars>>

\* the serve loop accepts one more connection
Accept(t) ==
    /\ ~exited
    /\ startPc[t] = "Serve"
    /\ accepted[t] < MaxConn
    /\ accepted' = [accepted EXCEPT ![t] = @ + 1]
    /\ UNCHANGED <<program, impl, mainPc, taskPc, startPc, listenErr, serveErr,
                   startErr, serveCalled, wg, output, exited, exitCode,
                   exitedBy, callVars>>

\* the listener fails: Serve / ListenAndServe returns its error (nothing in
\* the program calls Stop, GracefulStop or Shutdown, the only ways they
\* return nil) and Start() returns
ServeFail(t) ==
    /\ ~exited
    /\ startPc[t] = "Serve"
    /\ serveErr' = [serveErr EXCEPT ![t] = "serve"]
    /\ startErr' = [startErr EXCEPT ![t] = ServeReturn(t, "serve")]
    /\ startPc' = [startPc EXCEPT ![t] = "returned"]
    /\ UNCHANGED <<program, impl, mainPc, taskPc, listenErr, serveCalled,
                   accepted, wg, output, exited, exitCode, exitedBy, callVars>>

\* ------------------------------------------------------------- cmd/main.go
\* fmt.Println("Starting server...")
MainPrintln ==
    /\ ~exited
    /\ program = "single"
    /\ mainPc = "Println"
    /\ output' = Append(output, StartingLine("grpc"))
    /\ mainPc' = "Start"
    /\ UNCHANGED <<program, impl, taskPc, startPc, listenErr, serveErr,
                   startErr, serveCalled, accepted, wg, exited, exitCode,
                   exitedBy, callVars>>

\* server := internal.NewGrpcServer(":8080"); err := server.Start()
MainStart ==
    /\ ~exited
    /\ program = "single"
    /\ mainPc = "Start"
    /\ InvokeStart("grpc")
    /\ mainPc' = "inStart"
    /\ UNCHANGED <<program, impl, taskPc, listenErr, serveErr, startErr,
                   serveCalled, accepted, wg, output, exited, exitCode,
                   exitedBy, callVars>>

\* if err != nil { ... }; with a nil err main returns and the process ends
\* with status 0
MainCheck ==
    /\ ~exited
    /\ program = "single"
    /\ mainPc = "inStart"
    /\ startPc["grpc"] = "returned"
    /\ IF startErr["grpc"] # "nil"
       THEN /\ mainPc' = "Printf"
            /\ UNCHANGED <<exited, exitCode, exitedBy>>
       ELSE /\ mainPc' = "returned"
            /\ exited' = TRUE
            /\ exitCode' = 0
            /\ exitedBy' = "main"
    /\ UNCHANGED <<program, impl, taskPc, startPc, listenErr, serveErr,
                   startErr, serveCalled, accepted, wg, output, callVars>>

\* fmt.Printf("Error starting server: %v\n", err)
MainPrintf ==
    /\ ~exited
    /\ program = "single"
    /\ mainPc = "Printf"
    /\ output' = PrintfErr(output, startErr["grpc"])
    /\ mainPc' = "Exit"
    /\ UNCHANGED <<program, impl, taskPc, startPc, listenErr, serveErr,
                   startErr, serveCalled, accepted, wg, exited, exitCode,
                   exitedBy, callVars>>

\* os.Exit(1), the last statement of both mains
MainExit ==
    /\ ~exited
    /\ mainPc = "Exit"
    /\ exited' = TRUE
    /\ exitCode' = 1
    /\ exitedBy' = "main"
    /\ mainPc' = "exited"
    /\ UNCHANGED <<program, impl, taskPc, startPc, listenErr, serveErr,
                   startErr, serveCalled, accepted, wg, output, callVars>>

\* ------------------------------------------------------------- WaitGroup main
\* wg := &sync.WaitGroup{}; wg.Add(2)
MainAdd ==
    /\ ~exited
    /\ program = "waitgroup"
    /\ mainPc = "Add"
    /\ wg' = wg + Cardinality(Listeners)
    /\ mainPc' = "goGrpc"
    /\ UNCHANGED <<program, impl, taskPc, startPc, listenErr, serveErr,
                   startErr, serveCalled, accepted, output, exited, exitCode,
                   exitedBy, callVars>>

\* go startGrpcServer(wg) / go startHTTPServer(wg): the goroutine exists and
\* main goes on at once
MainGo(t) ==
    /\ ~exited
    /\ program = "waitgroup"
    /\ GoReady(t)
    /\ taskPc[t] = "none"
    /\ taskPc' = [taskPc EXCEPT ![t] = "Println"]
    /\ mainPc' = IF t = "grpc" THEN "goHTTP" ELSE "Wait"
    /\ UNCHANGED <<program, impl, startPc, listenErr, serveErr, startErr,
                   serveCalled, accepted, wg, output, exited, exitCode,
                   exitedBy, callVars>>

\* wg.Wait()
MainWait ==
    /\ ~exited
    /\ program = "waitgroup"
    /\ mainPc = "Wait"
    /\ WaitReturns
    /\ mainPc' = "Exit"
    /\ UNCHANGED <<program, impl, taskPc, startPc, listenErr, serveErr,
                   startErr, serveCalled, accepted, wg, output, exited,
                   exitCode, exitedBy, callVars>>

\* ------------------------------------------------------------- the tasks
\* fmt.Println("Starting server...") / fmt.Println("Starting HTTP server...")
TaskPrintln(t) ==
    /\ ~exited
    /\ taskPc[t] = "Println"
    /\ output' = Append(output, StartingLine(t))
    /\ taskPc' = [taskPc EXCEPT ![t] = "Start"]
    /\ UNCHANGED <<program, impl, mainPc, startPc, listenErr, serveErr,
                   startErr, serveCalled, accepted, wg, exited, exitCode,
                   exitedBy, callVars>>

\* server := internal.NewGrpcServer(...); err := server.Start()
TaskStart(t) ==
    /\ ~exited
    /\ taskPc[t] = "Start"
    /\ InvokeStart(t)
    /\ taskPc' = [taskPc EXCEPT ![t] = "inStart"]
    /\ UNCHANGED <<program, impl, mainPc, listenErr, serveErr, startErr,
                   serveCalled, accepted, wg, output, exited, exitCode,
                   exitedBy, callVars>>

\* if err != nil { ... }: with a nil err the task function ends here
TaskCheck(t) ==
    /\ ~exited
    /\ taskPc[t] = "inStart"
    /\ startPc[t] = "returned"
    /\ taskPc' = [taskPc EXCEPT ![t] =
                     IF startErr[t] # "nil" THEN "PrintErr" ELSE "end"]
    /\ UNCHANGED <<program, impl, mainPc, startPc, listenErr, serveErr,
                   startErr, serveCalled, accepted, wg, output, exited,
                   exitCode, exitedBy, callVars>>

\* fmt.Println(err)
TaskPrintErr(t) ==
    /\ ~exited
    /\ taskPc[t] = "PrintErr"
    /\ output' = PrintlnErr(output, t, startErr[t])
    /\ taskPc' = [taskPc EXCEPT ![t] = "Done"]
    /\ UNCHANGED <<program, impl, mainPc, startPc, listenErr, serveErr,
                   startErr, serveCalled, accepted, wg, exited, exitCode,
                   exitedBy, callVars>>

\* wg.Done()
TaskDone(t) ==
    /\ ~exited
    /\ taskPc[t] = "Done"
    /\ wg' = ReportFailure(t).wg
    /\ exited' = ReportFailure(t).exited
    /\ exitCode' = ReportFailure(t).code
    /\ exitedBy' = ReportFailure(t).by
    /\ taskPc' = [taskPc EXCEPT ![t] = "end"]
    /\ UNCHANGED <<program, impl, mainPc, startPc, listenErr, serveErr,
                   startErr, serveCalled, accepted, output, callVars>>

\* ------------------------------------------------------------- the host
MainStep ==
    \/ MainPrintln
    \/ MainStart
    \/ MainCheck
    \/ MainPrintf
    \/ MainExit
    \/ MainAdd
    \/ \E t \in Listeners : MainGo(t)
    \/ MainWait

\* the steps of the goroutine that runs listener t's Start()
ThreadStep(t) ==
    \/ TaskPrintln(t)
    \/ TaskStart(t)
    \/ StartListen(t)
    \/ StartCheck(t)
    \/ TaskCheck(t)
    \/ TaskPrintErr(t)
    \/ TaskDone(t)

\* what the network does to a serving listener
NetStep(t) ==
    \/ Accept(t)
    \/ ServeFail(t)

Next ==
    \/ MainStep
    \/ \E t \in Listeners : ThreadStep(t)
    \/ \E t \in Listeners : NetStep(t)

Spec == Init /\ [][Next]_vars

\* the Go scheduler runs every runnable goroutine; the network owes nothing
FairSpec ==
    /\ Init
    /\ [][Next]_vars
    /\ WF_vars(MainStep)
    /\ \A t \in Listeners : WF_vars(ThreadStep(t))

\* ------------------------------------------------------------- GetFrame calls
\* a client sends GetFrameRequest{Id: id} over an accepted connection
CallIssue(c) ==
    /\ ~exited
    /\ startPc["grpc"] = "Serve"
    /\ accepted["grpc"] > 0
    /\ callPc[c] = "idle"
    /\ \E id \in Ids : callReq' = [callReq EXCEPT ![c] = [Id |-> id]]
    /\ callPc' = [callPc EXCEPT ![c] = "pending"]
    /\ UNCHANGED <<hostVars, callResp>>

\* the call's own handler goroutine runs GetFrame on its request
HandlerRun(c) ==
    /\ ~exited
    /\ callPc[c] = "pending"
    /\ callResp' = [callResp EXCEPT ![c] = GetFrame(callReq[c])]
    /\ callPc' = [callPc EXCEPT ![c] = "built"]
    /\ UNCHANGED <<hostVars, callReq>>

\* the (Frame, error) pair is sent back to the caller
HandlerReturn(c) ==
    /\ ~exited
    /\ callPc[c] = "built"
    /\ callPc' = [callPc EXCEPT ![c] = "responded"]
    /\ UNCHANGED <<hostVars, callReq, callResp>>

\* cmd/main.go blocked in server.Start(), the GrpcServer serving on :8080
InitRpc ==
    /\ program = "single"
    /\ impl = "file"
    /\ mainPc = "inStart"
    /\ taskPc = [t \in Listeners |-> "none"]
    /\ startPc = [t \in Listeners |-> IF t = "grpc" THEN "Serve" ELSE "idle"]
    /\ listenErr = [t \in Listeners |-> IF t = "grpc" THEN "nil" ELSE "pending"]
    /\ serveErr = [t \in Listeners |-> "none"]
    /\ startErr = [t \in Listeners |-> "pending"]
    /\ serveCalled = [t \in Listeners |-> t = "grpc"]
    /\ accepted = [t \in Listeners |-> 0]
    /\ wg = 0
    /\ output = <<StartingLine("grpc")>>
    /\ exited = FALSE
    /\ exitCode = 0
    /\ exitedBy = "none"
    /\ IdleCalls

NextRpc ==
    \/ Accept("grpc")
    \/ \E c \in Callers : CallIssue(c)
    \/ \E c \in Callers : HandlerRun(c)
    \/ \E c \in Callers : HandlerReturn(c)

SpecRpc == InitRpc /\ [][NextRpc]_vars

\* ============================================================= claims
Responded == {c \in Callers : callPc[c] = "responded"}
Failed(t) == listenErr[t] = "bind" \/ serveErr[t] = "serve"

C2_EitherFailureExits ==
    (program = "waitgroup" /\ \E t \in Listeners : startErr[t] \in Errors)
        ~> (exited /\ exitCode # 0)

\* C3: in the WaitGroup host, under fair scheduling, both listeners' Start()
\* are eventually invoked, whether the other one blocks in its serve loop for
\* ever or fails to bind.
C3_BothStartsInvoked ==
    (program = "waitgroup") ~> (\A t \in Listeners : startPc[t] # "idle")

C3_Witness ==
    /\ program = "waitgroup"
    /\ startPc["grpc"] = "Serve"
    /\ accepted["grpc"] > 0
    /\ startPc["http"] = "Listen"

\* C4: when net.Listen fails, GrpcServer.Start() returns that bind error at
\* its next step: Serve is never called and no connection is accepted.
C4_BindFailureReturns ==
    listenErr["grpc"] = "bind" =>
        /\ ~serveCalled["grpc"]
        /\ accepted["grpc"] = 0
        /\ serveErr["grpc"] = "none"
        /\ startPc["grpc"] \in {"check", "returned"}
        /\ startPc["grpc"] = "returned" => startErr["grpc"] = "bind"

C4_Witness ==
    /\ listenErr["grpc"] = "bind"
    /\ startPc["grpc"] = "returned"

\* C5: only main ends the process: no listener task calls exit; in the
\* WaitGroup host the exit comes after every task has signalled the wait
\* group for its failure.
C5_OnlyMainExits ==
    exited =>
        /\ exitedBy = "main"
        /\ program = "waitgroup" =>
               /\ wg = 0
               /\ \A t \in Listeners : taskPc[t] = "end" /\ startErr[t] \in Errors

C5_Witness ==
    /\ exited
    /\ program = "waitgroup"
    /\ exitedBy = "main"

\* C6: when the process has exited, every error a Start() returned has been
\* printed, and at least one was.
C6_ErrorPrintedBeforeExit ==
    exited =>
        /\ \E t \in Listeners : startErr[t] \in Errors
        /\ \A t \in Listeners :
               startErr[t] \in Errors => ErrLine(t, startErr[t]) \in Range(output)

C6_Witness ==
    /\ exited
    /\ startErr["grpc"] = "serve"
    /\ ErrLine("grpc", "serve") \in Range(output)

\* C7: the program never ends itself with status 0: every exit it initiates
\* follows a listener failure and carries a non-zero status.
C7_NoZeroExit ==
    exited =>
        /\ exitCode # 0
        /\ \E t \in Listeners : Failed(t)

C7_Witness ==
    /\ exited
    /\ exitCode = 1
    /\ program = "single"

\* C9 (as claimed): the wait completes exactly when both tasks have returned
\* from Start(): main is not past wg.Wait() while a Start() is running, and
\* once both tasks are over, whatever their Start() returned, the wait group
\* lets main through.
C9_WaitCompletesWhenBothReturned ==
    program = "waitgroup" =>
        /\ mainPc \in {"Exit", "exited"} =>
               \A t \in Listeners : startPc[t] = "returned"
        /\ (\A t \in Listeners : taskPc[t] = "end") => WaitReturns

\* C10 (as claimed): every return of GrpcServer.Start() carries a non-nil
\* error: the bind error, or, after a successful bind, the error that ended
\* the serve loop.
C10_StartReturnsError ==
    startPc["grpc"] = "returned" =>
        /\ startErr["grpc"] \in Errors
        /\ listenErr["grpc"] = "nil" => serveErr["grpc"] = "serve"

====
